---- MODULE Spec2Model ----
(***************************************************************************)
(* Model of docs/how_to_guide/04_embedding_networks.ipynb.                 *)
(*                                                                         *)
(* The guide holds two Python snippets.  The model executes their          *)
(* statements in document order in an interpreter session (a namespace and *)
(* a heap of the objects the statements build), and it executes            *)
(* CustomCNN.forward step by step on tensors abstracted to their shape,    *)
(* their strides and the classes of float values they hold.                *)
(***************************************************************************)
EXTENDS Integers, Sequences, FiniteSets, TLC

\* Largest batch multiplier n used to build the input tensors.
MaxN == 2

(***************************************************************************)
(* Layer hyper-parameters of CustomCNN.__init__ and the view shapes of     *)
(* CustomCNN.forward.                                                      *)
(***************************************************************************)
conv1_in_channels == 1
conv1_out_channels == 6
conv1_kernel_size == 5
conv1_padding == 2
\* nn.Conv2d is built without a stride argument: the default stride is 1.
conv1_stride == 1
pool_kernel_size == 8
pool_stride == 8
fc_in_features == 6 * 4 * 4
fc_out_features == 8
View1Shape == <<-1, 1, 32, 32>>
View2Shape == <<-1, 6 * 4 * 4>>

(***************************************************************************)
(* Tensors: shape, strides (in elements) and the set of value classes that *)
(* occur among the elements.                                               *)
(***************************************************************************)
FloatClass == {"neg", "zero", "pos", "nan"}

RECURSIVE Prod(_)
Prod(s) == IF s = <<>> THEN 1 ELSE Head(s) * Prod(Tail(s))

ContigStrides(shape) ==
    [i \in 1..Len(shape) |-> Prod(SubSeq(shape, i + 1, Len(shape)))]

Contig(shape, cls) ==
    [shape |-> shape, strides |-> ContigStrides(shape), cls |-> cls]

\* t.transpose(0, -1): the first and the last dimension are swapped, the
\* storage is left as it is.
Transpose(t) ==
    LET n == Len(t.shape)
        sw(s) == [i \in 1..n |-> IF i = 1 THEN s[n] ELSE IF i = n THEN s[1] ELSE s[i]]
    IN  [shape |-> sw(t.shape), strides |-> sw(t.strides), cls |-> t.cls]

Numel(t) == Prod(t.shape)

IsContiguous(t) == t.strides = ContigStrides(t.shape)

\* The shapes of the tensors handed to forward.
InputShapes ==
    UNION { { <<n, 1, 32, 32>>, <<n, 32, 32>>, <<n, 1024>>, <<n * 1024>>,
              <<2 * n, 512>>, <<n, 3, 32, 32>>, <<n, 1000>> } : n \in 1..MaxN }

ClassSets == (SUBSET FloatClass) \ {{}}

InputTensors ==
    UNION { { Contig(s, c), Transpose(Contig(s, c)) } : s \in InputShapes, c \in ClassSets }

\* The value of x inside forward: freshly produced tensors are contiguous, so
\* only the shape and the value classes are kept.
NoTensor == [shape |-> <<>>, cls |-> {}]

(***************************************************************************)
(* Tensor.view                                                             *)
(***************************************************************************)
\* The requested shape with its -1 replaced by the inferred size, or <<>> when
\* the number of elements is not a multiple of the other sizes.
InferSize(target, numel) ==
    LET other == Prod([i \in 1..Len(target) |-> IF target[i] = -1 THEN 1 ELSE target[i]])
    IN  IF numel % other = 0
        THEN [i \in 1..Len(target) |-> IF target[i] = -1 THEN numel \div other ELSE target[i]]
        ELSE <<>>

\* The view dimensions, taken from the last one, that one chunk of tensor
\* dimensions covers: <<first view dimension left, elements covered>>.
RECURSIVE Consume(_, _, _, _)
Consume(nsh, vd, vn, tn) ==
    IF vd >= 1 /\ (vn < tn \/ nsh[vd] = 1)
    THEN Consume(nsh, vd - 1, vn * nsh[vd], tn)
    ELSE <<vd, vn>>

\* A view needs no copy: every chunk of dimensions that are contiguous among
\* themselves is covered by whole view dimensions.
RECURSIVE Walk(_, _, _, _, _, _, _)
Walk(osh, ost, nsh, td, vd, tn0, base) ==
    LET tn == tn0 * osh[td]
        chunkEnd == td = 1 \/ (osh[td - 1] /= 1 /\ ost[td - 1] /= tn * base)
        c == Consume(nsh, vd, 1, tn)
    IN  IF chunkEnd
        THEN IF c[2] /= tn THEN FALSE
             ELSE IF td > 1 THEN Walk(osh, ost, nsh, td - 1, c[1], 1, ost[td - 1])
             ELSE c[1] = 0
        ELSE Walk(osh, ost, nsh, td - 1, vd, tn, base)

StridesAdmitView(t, nsh) ==
    Walk(t.shape, t.strides, nsh, Len(t.shape), Len(nsh), 1, t.strides[Len(t.shape)])

\* The viewed tensor, or NoTensor when view raises RuntimeError.
View(t, target) ==
    LET nsh == InferSize(target, Numel(t))
    IN  IF nsh = <<>> THEN NoTensor
        ELSE IF ~StridesAdmitView(t, nsh) THEN NoTensor
        ELSE [shape |-> nsh, cls |-> t.cls]

(***************************************************************************)
(* The layers.                                                             *)
(***************************************************************************)
\* Output side of a convolution over a side of h elements.
ConvOut(h, k, p, s) == ((h + 2 * p - (k - 1) - 1) \div s) + 1

\* Output side of a max-pool (no padding) over a side of h elements.
PoolOut(h, k, s) == ((h - (k - 1) - 1) \div s) + 1

\* An affine layer (convolution, linear) with arbitrary weights and bias: its
\* outputs can be of any class, and a NaN among its inputs reaches an output.
AffineClasses(cls) == { S \in ClassSets : "nan" \in cls => "nan" \in S }

Relu_identity(cls) == cls

\* F.relu: max(0, v) on every element; NaN stays NaN.
Relu(cls) == { IF c = "neg" THEN "zero" ELSE c : c \in cls }

Rank(c) == CASE c = "neg" -> 0 [] c = "zero" -> 1 [] c = "pos" -> 2 [] c = "nan" -> 3

\* Max-pool: every output is the greatest element of a window (NaN wins), so
\* the greatest class of the input is among the outputs.
PoolClasses(cls) ==
    { S \in (SUBSET cls) \ {{}} : \E c \in S : \A d \in cls : Rank(d) <= Rank(c) }

Conv1_no_padding(x) ==
    [shape |-> << x.shape[1], conv1_out_channels,
                  ConvOut(x.shape[3], conv1_kernel_size, 0, conv1_stride),
                  ConvOut(x.shape[4], conv1_kernel_size, 0, conv1_stride) >>,
     cls |-> x.cls]

\* self.conv1 on an (N, C, H, W) tensor; the classes are set by the caller.
Conv1(x) ==
    [shape |-> << x.shape[1], conv1_out_channels,
                  ConvOut(x.shape[3], conv1_kernel_size, conv1_padding, conv1_stride),
                  ConvOut(x.shape[4], conv1_kernel_size, conv1_padding, conv1_stride) >>,
     cls |-> x.cls]

Conv1Accepts(x) == Len(x.shape) = 4 /\ x.shape[2] = conv1_in_channels

Pool_kernel4(x) ==
    [shape |-> << x.shape[1], x.shape[2],
                  PoolOut(x.shape[3], 4, 4), PoolOut(x.shape[4], 4, 4) >>,
     cls |-> x.cls]

\* self.pool on an (N, C, H, W) tensor.
Pool(x) ==
    [shape |-> << x.shape[1], x.shape[2],
                  PoolOut(x.shape[3], pool_kernel_size, pool_stride),
                  PoolOut(x.shape[4], pool_kernel_size, pool_stride) >>,
     cls |-> x.cls]

Fc_out16(x) == [shape |-> << x.shape[1], 2 * fc_out_features >>, cls |-> x.cls]

\* self.fc on an (N, in_features) tensor.
Fc(x) == [shape |-> << x.shape[1], fc_out_features >>, cls |-> x.cls]

FcAccepts(x) == Len(x.shape) >= 1 /\ x.shape[Len(x.shape)] = fc_in_features

\* The steps of forward in the order the interpreter applies them.
ForwardOrder == << "view", "conv1", "relu", "pool", "view", "fc", "relu" >>

(***************************************************************************)
(* The guide's statements, numbered in document order.  They run in the    *)
(* one thread of the session, so none runs while forward is being executed.*)
(*   1  from sbi.neural_nets import posterior_nn                           *)
(*   2  from sbi.neural_nets.embedding_nets import FCEmbedding, ...        *)
(*   3  embedding_net = CNNEmbedding(input_shape=(32, 32))                 *)
(*   4  neural_posterior = posterior_nn(model="maf", embedding_net=...)    *)
(*   5  trainer = NPE(density_estimator=neural_posterior)                  *)
(*   6  class CustomCNN(nn.Module): ...                                    *)
(*   7  embedding_net_custom = CustomCNN()                                 *)
(*   8  neural_posterior = posterior_nn(model="maf", embedding_net=...)    *)
(*   9  trainer = NPE(density_estimator=neural_posterior)                  *)
(***************************************************************************)
LastStatement == 9

\* The snippet (fenced code block) a statement belongs to.
Snippet(s) == IF s <= 5 THEN 1 ELSE 2

\* The statement after the last one of s's snippet.
SnippetEnd(s) == IF s <= 5 THEN 6 ELSE LastStatement + 1

\* The names a statement reads when it is executed.
Uses(s) ==
    CASE s = 1 -> {}
      [] s = 2 -> {}
      [] s = 3 -> {"CNNEmbedding"}
      [] s = 4 -> {"posterior_nn", "embedding_net"}
      [] s = 5 -> {"NPE", "neural_posterior"}
      [] s = 6 -> {"nn"}
      [] s = 7 -> {"CustomCNN"}
      [] s = 8 -> {"posterior_nn", "embedding_net_custom"}
      [] s = 9 -> {"NPE", "neural_posterior"}

\* The names the body of forward reads when it is called.
ForwardUses == {"F"}

\* The names a statement binds.
Binds(s) ==
    CASE s = 1 -> {"posterior_nn"}
      [] s = 2 -> {"FCEmbedding", "CNNEmbedding", "PermutationInvariantEmbedding"}
      [] s = 3 -> {"embedding_net"}
      [] s = 4 -> {"neural_posterior"}
      [] s = 5 -> {"trainer"}
      [] s = 6 -> {"CustomCNN"}
      [] s = 7 -> {"embedding_net_custom"}
      [] s = 8 -> {"neural_posterior"}
      [] s = 9 -> {"trainer"}

\* The names the guide reads and never binds: a session has them only if
\* something outside the guide bound them.
FreeNames == {"NPE", "nn", "F"}

ValueNames == {"embedding_net", "neural_posterior", "trainer", "embedding_net_custom"}

\* The inference method of the trainer the guide constructs.
TrainerMethod_NLE == "NLE"

TrainerMethod == "NPE"

\* The name whose value statement 8 passes as embedding_net.
Stmt8EmbeddingArg_first == "embedding_net"

Stmt8EmbeddingArg == "embedding_net_custom"

VARIABLES
    gpc,      \* the next statement of the guide to execute
    ambient,  \* names the session bound before the guide
    bound,    \* names bound by the guide's statements so far
    env,      \* value name -> heap index of its object, 0 when unbound
    heap,     \* the objects built so far, in order of construction
    raised,   \* <<statement, name>> of every NameError raised by a statement
    fpc,      \* position inside CustomCNN.forward, "idle" outside a call
    arg,      \* the tensor forward was called with
    x,        \* the local x of forward
    steps,    \* the steps of forward applied in the current call
    ferr      \* <<step, exception>> when forward raised, <<>> otherwise

vars == << gpc, ambient, bound, env, heap, raised, fpc, arg, x, steps, ferr >>

guideVars == << gpc, bound, env, heap, raised >>

forwardVars == << fpc, arg, x, steps, ferr >>

NoArg == [shape |-> <<>>, strides |-> <<>>, cls |-> {}]

Init ==
    /\ gpc = 1
    /\ fpc = "idle"
    /\ ambient \in SUBSET FreeNames
    /\ bound = {}
    /\ env = [n \in ValueNames |-> 0]
    /\ heap = <<>>
    /\ raised = {}
    /\ fpc = "idle"
    /\ arg = NoArg
    /\ x = NoTensor
    /\ steps = <<>>
    /\ ferr = <<>>

Visible == bound \cup ambient

Unbound(s) == Uses(s) \ Visible

\* A statement that reads an unbound name raises NameError, which ends its
\* snippet; the next snippet can still be run.
RaiseNameError(s) ==
    /\ raised' = raised \cup { <<s, n>> : n \in Unbound(s) }
    /\ gpc' = SnippetEnd(s)
    /\ UNCHANGED << bound, env, heap >>

\* A statement that binds names and builds no object.
BindOnly(s) ==
    /\ bound' = bound \cup Binds(s)
    /\ gpc' = s + 1
    /\ UNCHANGED << env, heap, raised >>

\* name = <constructor>(...): obj is built and name is bound to it.
Assign(s, name, obj) ==
    /\ heap' = Append(heap, obj)
    /\ env' = [env EXCEPT ![name] = Len(heap) + 1]
    /\ bound' = bound \cup Binds(s)
    /\ gpc' = s + 1
    /\ UNCHANGED raised

Obj(kind, class, ref, s) == [kind |-> kind, class |-> class, ref |-> ref, stmt |-> s]

ImportPosteriorNn ==
    /\ gpc = 1
    /\ fpc = "idle"
    /\ BindOnly(1)
    /\ UNCHANGED << ambient, forwardVars >>

ImportEmbeddingNets ==
    /\ gpc = 2
    /\ fpc = "idle"
    /\ BindOnly(2)
    /\ UNCHANGED << ambient, forwardVars >>

MakeCNNEmbedding ==
    /\ gpc = 3
    /\ fpc = "idle"
    /\ IF Unbound(3) /= {} THEN RaiseNameError(3)
       ELSE Assign(3, "embedding_net", Obj("embedding", "CNNEmbedding", 0, 3))
    /\ UNCHANGED << ambient, forwardVars >>

MakePosterior1 ==
    /\ gpc = 4
    /\ fpc = "idle"
    /\ IF Unbound(4) /= {} THEN RaiseNameError(4)
       ELSE Assign(4, "neural_posterior", Obj("estimator", "maf", env["embedding_net"], 4))
    /\ UNCHANGED << ambient, forwardVars >>

MakeTrainer1 ==
    /\ gpc = 5
    /\ fpc = "idle"
    /\ IF Unbound(5) /= {} THEN RaiseNameError(5)
       ELSE Assign(5, "trainer", Obj("trainer", TrainerMethod, env["neural_posterior"], 5))
    /\ UNCHANGED << ambient, forwardVars >>

DefineCustomCNN ==
    /\ gpc = 6
    /\ fpc = "idle"
    /\ IF Unbound(6) /= {} THEN RaiseNameError(6) ELSE BindOnly(6)
    /\ UNCHANGED << ambient, forwardVars >>

MakeCustomCNN ==
    /\ gpc = 7
    /\ fpc = "idle"
    /\ IF Unbound(7) /= {} THEN RaiseNameError(7)
       ELSE Assign(7, "embedding_net_custom", Obj("embedding", "CustomCNN", 0, 7))
    /\ UNCHANGED << ambient, forwardVars >>

MakePosterior2 ==
    /\ gpc = 8
    /\ fpc = "idle"
    /\ IF Unbound(8) /= {} THEN RaiseNameError(8)
       ELSE Assign(8, "neural_posterior", Obj("estimator", "maf", env[Stmt8EmbeddingArg], 8))
    /\ UNCHANGED << ambient, forwardVars >>

MakeTrainer2 ==
    /\ gpc = 9
    /\ fpc = "idle"
    /\ IF Unbound(9) /= {} THEN RaiseNameError(9)
       ELSE Assign(9, "trainer", Obj("trainer", TrainerMethod, env["neural_posterior"], 9))
    /\ UNCHANGED << ambient, forwardVars >>

(***************************************************************************)
(* CustomCNN.forward, one action per step.  It is called (by training, or  *)
(* by the user) once an instance exists.                                   *)
(***************************************************************************)
Raise(step, exc) ==
    /\ fpc' = "raised"
    /\ ferr' = << step, exc >>
    /\ UNCHANGED << arg, x, steps >>

Step(name, next, value) ==
    /\ fpc' = next
    /\ x' = value
    /\ steps' = Append(steps, name)
    /\ UNCHANGED << arg, ferr >>

ForwardCall ==
    /\ fpc = "idle"
    /\ env["embedding_net_custom"] /= 0
    /\ \E t \in InputTensors : arg' = t
    /\ fpc' = "view1"
    /\ x' = NoTensor
    /\ steps' = <<>>
    /\ ferr' = <<>>
    /\ UNCHANGED << ambient, guideVars >>

\* x = x.view(-1, 1, 32, 32)
View1 ==
    /\ fpc = "view1"
    /\ LET v == View(arg, View1Shape)
       IN  IF v = NoTensor THEN Raise("view1", "RuntimeError")
           ELSE Step("view", "conv1", v)
    /\ UNCHANGED << ambient, guideVars >>

\* self.pool(F.relu(self.conv1(x))): F.relu is looked up before conv1 is called.
Conv1Step ==
    /\ fpc = "conv1"
    /\ IF ForwardUses \ Visible /= {} THEN Raise("conv1", "NameError")
       ELSE IF ~Conv1Accepts(x) THEN Raise("conv1", "RuntimeError")
       ELSE \E S \in AffineClasses(x.cls) :
                Step("conv1", "relu1", [Conv1(x) EXCEPT !.cls = S])
    /\ UNCHANGED << ambient, guideVars >>

Relu1 ==
    /\ fpc = "relu1"
    /\ Step("relu", "pool", [x EXCEPT !.cls = Relu(x.cls)])
    /\ UNCHANGED << ambient, guideVars >>

PoolStep ==
    /\ fpc = "pool"
    /\ \E S \in PoolClasses(x.cls) :
           Step("pool", "view2", [Pool(x) EXCEPT !.cls = S])
    /\ UNCHANGED << ambient, guideVars >>

\* x = x.view(-1, 6 * 4 * 4), on the tensor the pool has just produced.
View2 ==
    /\ fpc = "view2"
    /\ LET v == View(Contig(x.shape, x.cls), View2Shape)
       IN  IF v = NoTensor THEN Raise("view2", "RuntimeError")
           ELSE Step("view", "fc", v)
    /\ UNCHANGED << ambient, guideVars >>

\* F.relu(self.fc(x))
FcStep ==
    /\ fpc = "fc"
    /\ IF ForwardUses \ Visible /= {} THEN Raise("fc", "NameError")
       ELSE IF ~FcAccepts(x) THEN Raise("fc", "RuntimeError")
       ELSE \E S \in AffineClasses(x.cls) :
                Step("fc", "relu2", [Fc(x) EXCEPT !.cls = S])
    /\ UNCHANGED << ambient, guideVars >>

\* return x
Relu2 ==
    /\ fpc = "relu2"
    /\ Step("relu", "returned", [x EXCEPT !.cls = Relu(x.cls)])
    /\ UNCHANGED << ambient, guideVars >>

\* Control is back in the caller, with the result or with the exception.
ForwardExit ==
    /\ fpc \in {"returned", "raised"}
    /\ fpc' = "idle"
    /\ arg' = NoArg
    /\ x' = NoTensor
    /\ steps' = <<>>
    /\ ferr' = <<>>
    /\ UNCHANGED << ambient, guideVars >>

Next ==
    \/ ImportPosteriorNn
    \/ ImportEmbeddingNets
    \/ MakeCNNEmbedding
    \/ MakePosterior1
    \/ MakeTrainer1
    \/ DefineCustomCNN
    \/ MakeCustomCNN
    \/ MakePosterior2
    \/ MakeTrainer2
    \/ ForwardCall
    \/ View1
    \/ Conv1Step
    \/ Relu1
    \/ PoolStep
    \/ View2
    \/ FcStep
    \/ Relu2
    \/ ForwardExit

Spec == Init /\ [][Next]_vars

(***************************************************************************)
(* Properties.                                                             *)
(***************************************************************************)
TypeOK ==
    /\ gpc \in 1..(LastStatement + 1)
    /\ ambient \subseteq FreeNames
    /\ \A n \in ValueNames : env[n] \in 0..Len(heap)
    /\ fpc \in {"idle", "view1", "conv1", "relu1", "pool", "view2", "fc", "relu2",
                "returned", "raised"}
    /\ Len(steps) <= Len(ForwardOrder)

\* The number of 32x32 single-channel images the first view makes of the input.
Images == Numel(arg) \div (32 * 32)

\* C1: conv1 turns each 32x32 single-channel image into 6 maps of 32x32, and
\* the max-pool turns each of these maps into a 4x4 map.
C1_PoolReduces32x32To4x4 ==
    /\ fpc = "conv1" => x.shape = << Images, 1, 32, 32 >>
    /\ fpc \in {"relu1", "pool"} => x.shape = << Images, 6, 32, 32 >>
    /\ fpc = "view2" => x.shape = << Images, 6, 4, 4 >>

C1_Witness ==
    /\ fpc = "view2"
    /\ arg.shape = << 1, 1, 32, 32 >>
    /\ x.shape = << 1, 6, 4, 4 >>

\* C2: the elements per sample that leave the pool (6 maps of 4x4) are as many
\* as fc's in_features and as the row width of the second view (96), so the
\* flatten step keeps the number of samples and neither it nor fc raises on a
\* shape mismatch.
C2_FlattenMatchesFc ==
    /\ fpc = "view2" =>
          /\ Prod(Tail(x.shape)) = fc_in_features
          /\ Prod(Tail(x.shape)) = View2Shape[2]
          /\ fc_in_features = 96
          /\ x.shape[1] = Images
    /\ fpc \in {"fc", "relu2"} => x.shape[1] = Images
    /\ fpc = "fc" => x.shape = << Images, 96 >>
    /\ fpc = "raised" => ferr \notin { <<"view2", "RuntimeError">>, <<"fc", "RuntimeError">> }

C2_Witness ==
    /\ fpc = "fc"
    /\ Images = 2
    /\ x.shape = << 2, 96 >>

IsKind(i, kind) == i \in 1..Len(heap) /\ heap[i].kind = kind

\* Object i was built by an earlier statement of the snippet that built j.
BuiltEarlierInSnippet(i, j) ==
    /\ i < j
    /\ heap[i].stmt < heap[j].stmt
    /\ Snippet(heap[i].stmt) = Snippet(heap[j].stmt)

\* C3: in both snippets the embedding network is built first, posterior_nn is
\* given that network, and NPE is given what that posterior_nn call returned;
\* no object holds one built by a later step or by the other snippet.
C3_SetupOrder ==
    \A j \in 1..Len(heap) :
        /\ heap[j].kind = "embedding" => heap[j].ref = 0
        /\ heap[j].kind = "estimator" =>
              /\ IsKind(heap[j].ref, "embedding")
              /\ BuiltEarlierInSnippet(heap[j].ref, j)
        /\ heap[j].kind = "trainer" =>
              /\ IsKind(heap[j].ref, "estimator")
              /\ BuiltEarlierInSnippet(heap[j].ref, j)
              /\ heap[j].ref = j - 1
              /\ heap[j - 1].ref = j - 2

C3_Witness ==
    /\ gpc = LastStatement + 1
    /\ Len(heap) = 6
    /\ heap[3].kind = "trainer" /\ heap[6].kind = "trainer"
    /\ heap[heap[heap[6].ref].ref].class = "CustomCNN"
    /\ heap[heap[heap[3].ref].ref].class = "CNNEmbedding"

ForwardEnded == fpc \in {"returned", "raised"}

ViewRaised == fpc = "raised" /\ ferr \in { <<"view1", "RuntimeError">>, <<"view2", "RuntimeError">> }

\* C5 as claimed: on every input of N*1024 elements forward returns N rows of
\* 8 features, whatever the shape and layout of the input: no view raises.
C5_Original ==
    (ForwardEnded /\ Numel(arg) % 1024 = 0) =>
        /\ ~ViewRaised
        /\ fpc = "returned" => x.shape = << Numel(arg) \div 1024, 8 >>

\* C5 amended: on every input of N*1024 elements, whatever its shape, what
\* forward returns has exactly N rows of 8 features (8 < 1024), and when the
\* input is contiguous neither view of forward raises.
C5_RowsPerThousandTwentyFour ==
    (ForwardEnded /\ Numel(arg) % 1024 = 0) =>
        /\ IsContiguous(arg) => ~ViewRaised
        /\ fpc = "returned" =>
              /\ x.shape = << Numel(arg) \div 1024, 8 >>
              /\ x.shape[2] < 1024

C5_Witness ==
    /\ fpc = "returned"
    /\ arg.shape = << 2, 3, 32, 32 >>
    /\ IsContiguous(arg)
    /\ x.shape = << 6, 8 >>

\* C6 as claimed: every name a statement (or the body of forward) reads was
\* bound by an earlier statement of the guide, and no NameError is raised.
C6_NamesBoundBeforeUse ==
    /\ \A s \in 1..(gpc - 1) : Uses(s) \subseteq bound
    /\ fpc \notin {"idle", "view1"} => ForwardUses \subseteq bound
    /\ raised = {}
    /\ fpc = "raised" => ferr[2] /= "NameError"

IsPrefix(p, q) == Len(p) <= Len(q) /\ p = SubSeq(q, 1, Len(p))

C7_Safe ==
    /\ IsPrefix(steps, ForwardOrder)
    /\ fpc = "returned" => (steps = ForwardOrder /\ "neg" \notin x.cls)

\* C7 as claimed: the steps run once each in the fixed order and every
\* returned feature is greater than or equal to zero.
C7_Original ==
    /\ IsPrefix(steps, ForwardOrder)
    /\ fpc = "returned" => (steps = ForwardOrder /\ x.cls \subseteq {"zero", "pos"})

\* How far a call of forward has got.
ForwardPos(p) ==
    CASE p = "idle" -> 0 [] p = "view1" -> 1 [] p = "conv1" -> 2 [] p = "relu1" -> 3
      [] p = "pool" -> 4 [] p = "view2" -> 5 [] p = "fc" -> 6 [] p = "relu2" -> 7
      [] p = "returned" -> 8 [] p = "raised" -> 8

\* C7 amended: the steps run once each in the order view, conv1, relu, pool,
\* view, fc, relu; every step of a running call moves it forward (no branch
\* back, no loop), so the call ends after at most seven steps; and no returned
\* feature is negative: each is greater than or equal to zero, or NaN.
C7_FixedOrderNoNegative ==
    [][ /\ C7_Safe'
        /\ fpc \notin {"idle", "returned", "raised"} => ForwardPos(fpc') > ForwardPos(fpc)
      ]_vars

C7_Witness ==
    /\ fpc = "returned"
    /\ steps = ForwardOrder
    /\ x.cls = {"zero", "pos"}
    /\ "neg" \in arg.cls

====
